---- MODULE Spec2Model ----
(***************************************************************************)
(* Model of repet.py (REPET, REpeating Pattern Extraction Technique).      *)
(*                                                                         *)
(* Arrays are sequences; a Python index i is position i+1 of the sequence. *)
(* Real samples are integers.  A complex number is a pair <<re, im>> of    *)
(* integers, and the discrete Fourier transform is computed exactly for    *)
(* the window lengths 2 and 4, whose roots of unity are 1, -i, -1, i.      *)
(* A quotient the code computes in floating point is kept as an exact      *)
(* fraction [num, den], so no rounding is modelled.                        *)
(***************************************************************************)
EXTENDS Integers, Sequences, FiniteSets, TLC

VARIABLES
    pc,               \* position of the call being modelled
    audio_signal,     \* _stft: the input signal (one channel)
    window_function,  \* _stft/_istft: the analysis window
    step_length,      \* _stft/_istft: the hop between frames
    padded_signal,    \* _stft: the signal after np.pad
    audio_stft,       \* _stft: the frames, one column of window_length bins per time index
    output_signal,    \* _istft: the resynthesised signal [num, den]
    similarity_matrix,    \* _indices: the matrix, a sequence of rows
    similarity_threshold, \* _indices: minimum_value handed to _localmaxima
    similarity_distance,  \* _indices: minimum_distance handed to _localmaxima
    similarity_number,    \* _indices: number_values handed to _localmaxima
    number_times,         \* _indices: the loop bound
    time_index,           \* _indices: the loop counter
    similarity_indices,   \* _indices: the list being filled
    data_vector,          \* _localmaxima: the vector of the latest call
    maximum,              \* _localmaxima: what the latest call returned
    raised,               \* the exception that ended the call, if any
    audio_spectrogram,    \* _beatspectrum: the spectrogram, one row of frames per frequency
    beat_spectrum,        \* _beatspectrum: the result, one fraction [num, den] per lag
    lag_range,            \* the period range in time frames the caller asks for
    period_range,         \* _periods: the range argument
    repeating_period,     \* _periods: the result
    entry,                \* the public function called
    number_samples,       \* original: rows of the audio signal
    number_channels,      \* original: columns of the audio signal
    sample_rate,          \* original: sample rate in Hz
    window_length,        \* original: window length in samples
    channel_index,        \* original: counter of the loop over the channels
    analysed,             \* original: the analysis steps that have run
    return_value          \* what the public function returned

stftVars == <<audio_signal, window_function, step_length, padded_signal, audio_stft,
              output_signal>>

simVars == <<similarity_matrix, similarity_threshold, similarity_distance,
             similarity_number, number_times, time_index, similarity_indices,
             data_vector, maximum, raised>>

beatVars == <<audio_spectrogram, beat_spectrum, lag_range, period_range, repeating_period>>

origVars == <<entry, number_samples, number_channels, sample_rate, window_length,
              channel_index, analysed, return_value>>

vars == <<pc, stftVars, simVars, beatVars, origVars>>

----------------------------------------------------------------------------
(* Bounds of the model *)

MaxSamples == 3

MaxAmp == 1

MaxWin == 2

MaxRows == 3

MaxColumns == 2

MaxSim == 2

MaxDistance == 2

MaxNumber == 2

MaxFrames == 15

MaxFrequencies == 2

MaxPattern == 3

MaxMagnitude == 1

MaxLags == 9

MaxBeat == 1

MaxRange == 5

MaxSignal == 90

MaxChannels == 2

(* The window lengths the exact transform covers *)
WindowLengths == {2, 4}

NoValue == "None"

(* the variables of original and of the other public functions, not in use *)
IdleOriginal ==
    /\ entry = NoValue
    /\ number_samples = 0
    /\ number_channels = 0
    /\ sample_rate = 0
    /\ window_length = 0
    /\ channel_index = 0
    /\ analysed = {}
    /\ return_value = [value |-> NoValue, shape |-> <<0, 0>>]

----------------------------------------------------------------------------
(* Python and NumPy primitives *)

RECURSIVE SumSeq(_)
SumSeq(s) == IF s = <<>> THEN 0 ELSE s[1] + SumSeq(Tail(s))

Zeros(n) == [i \in 1..n |-> 0]

(* A slice bound as Python normalises it: negative counts from the end, then clamped *)
PyIdx(i, n) ==
    LET j == IF i < 0 THEN i + n ELSE i
    IN  IF j < 0 THEN 0 ELSE IF j > n THEN n ELSE j

(* s[a:b] *)
PySlice(s, a, b) ==
    LET lo == PyIdx(a, Len(s))
        hi == PyIdx(b, Len(s))
    IN  IF hi <= lo THEN <<>> ELSE SubSeq(s, lo + 1, hi)

(* s[0:stop:stride] *)
PyStride(s, stop, stride) ==
    LET hi == PyIdx(stop, Len(s))
        cnt == (hi + stride - 1) \div stride
    IN  [j \in 1..cnt |-> s[(j - 1) * stride + 1]]

(* int(np.ceil(a / b)) for a >= 0, b > 0 *)
CeilDiv(a, b) == (a + b - 1) \div b

(* np.pad(s, (before, after), 'constant', constant_values=0) *)
np_pad(s, before, after) == Zeros(before) \o s \o Zeros(after)

(* steplength = lambda window_length: round(window_length/2), window_length even *)
steplength(length) == length \div 2

----------------------------------------------------------------------------
(* Exact DFT for window lengths dividing 4 *)

CAdd(a, b) == <<a[1] + b[1], a[2] + b[2]>>

RECURSIVE CSum(_)
CSum(s) == IF s = <<>> THEN <<0, 0>> ELSE CAdd(s[1], CSum(Tail(s)))

(* z * i^m *)
CRot(z, m) ==
    CASE m % 4 = 0 -> z
      [] m % 4 = 1 -> <<-z[2], z[1]>>
      [] m % 4 = 2 -> <<-z[1], -z[2]>>
      [] m % 4 = 3 -> <<z[2], -z[1]>>

(* np.fft.fft(column): X[k] = sum_n x[n] * exp(-2 pi i n k / L), exp(-2 pi i / L) = i^(-4/L) *)
fft(column) ==
    LET L == Len(column)
    IN  [k \in 1..L |->
            CSum([n \in 1..L |-> CRot(<<column[n], 0>>, 4 - (((4 \div L) * (n - 1) * (k - 1)) % 4))])]

(* L * np.real(np.fft.ifft(column)): x[n] = (1/L) sum_k X[k] * exp(2 pi i n k / L);
   the factor 1/L is kept in the denominator of the result of _istft *)
ifft_real(column) ==
    LET L == Len(column)
    IN  [n \in 1..L |->
            CSum([k \in 1..L |-> CRot(column[k], ((4 \div L) * (n - 1) * (k - 1)) % 4)])[1]]

----------------------------------------------------------------------------
(* _stft *)

stft_number_times_floor(samples, length, step) ==
    (length - step + samples) \div step

stft_number_times(samples, length, step) ==
    CeilDiv(length - step + samples, step)

(* number_times as original computes it to preallocate audio_stft *)
original_number_times(length, step, samples) == CeilDiv(length - step + samples, step)

stft_pad(signal, length, step) ==
    np_pad(signal, length - step,
           stft_number_times(Len(signal), length, step) * step - Len(signal))

(* audio_signal[sample_index:window_length + sample_index] of the padded signal *)
stft_segment(padded, length, step, frame_index) ==
    PySlice(padded, step * frame_index, length + step * frame_index)

(* segment * window_function (elementwise; the shapes agree when the segment is whole) *)
Windowed(segment, window) == [n \in 1..Len(segment) |-> segment[n] * window[n]]

_stft(signal, window, step) ==
    LET length == Len(window)
        frame_count == stft_number_times(Len(signal), length, step)
        padded == stft_pad(signal, length, step)
    IN  [t \in 1..frame_count |->
            fft(Windowed(stft_segment(padded, length, step, t - 1), window))]

----------------------------------------------------------------------------
(* _istft *)

istft_samples(frame_count, length, step) ==
    (frame_count - 1) * step + length

(* the overlap-add loop: every frame is added at offset step_length * time_index *)
OverlapAdd(frames, samples, length, step) ==
    [n \in 1..samples |->
        SumSeq([t \in 1..Len(frames) |->
                    IF step * (t - 1) <= n - 1 /\ n - 1 < step * (t - 1) + length
                    THEN frames[t][n - step * (t - 1)]
                    ELSE 0])]

(* audio_signal[window_length - step_length:number_samples - (window_length - step_length)] *)
istft_trim(signal, length, step) ==
    PySlice(signal, length - step, Len(signal) - (length - step))

istft_norm_whole(window, step) == SumSeq(window)

(* sum(window_function[0:window_length:step_length]) *)
istft_norm(window, step) == SumSeq(PyStride(window, Len(window), step))

_istft(stft, window, step) ==
    LET length == Len(window)
        frame_count == Len(stft)
        samples == istft_samples(frame_count, length, step)
        frames == [t \in 1..frame_count |-> ifft_real(stft[t])]
        added == OverlapAdd(frames, samples, length, step)
    IN  [num |-> istft_trim(added, length, step),
         den |-> length * istft_norm(window, step)]

----------------------------------------------------------------------------
(* The transform pair applied to one channel *)

Signals == UNION {[1..n -> 0..MaxAmp] : n \in 0..MaxSamples}

Windows == UNION {[1..L -> 0..MaxWin] : L \in WindowLengths}

InitStft ==
    /\ pc = "stft_call"
    /\ audio_signal \in Signals
    /\ window_function \in Windows
    /\ step_length = steplength(Len(window_function))
    /\ padded_signal = <<>>
    /\ audio_stft = <<>>
    /\ output_signal = NoValue
    /\ similarity_matrix = <<>>
    /\ similarity_threshold = 0
    /\ similarity_distance = 0
    /\ similarity_number = 0
    /\ number_times = 0
    /\ time_index = 0
    /\ similarity_indices = <<>>
    /\ data_vector = <<>>
    /\ maximum = [raised |-> NoValue, maximum_values |-> <<>>, maximum_indices |-> <<>>]
    /\ raised = NoValue
    /\ audio_spectrogram = <<>>
    /\ beat_spectrum = <<>>
    /\ lag_range = <<0, 0>>
    /\ period_range = <<0, 0>>
    /\ repeating_period = 0
    /\ IdleOriginal

Stft ==
    /\ pc = "stft_call"
    /\ padded_signal' = stft_pad(audio_signal, Len(window_function), step_length)
    /\ audio_stft' = _stft(audio_signal, window_function, step_length)
    /\ pc' = "stft_done"
    /\ UNCHANGED <<audio_signal, window_function, step_length, output_signal, simVars, beatVars,
                   origVars>>

Istft ==
    /\ pc = "stft_done"
    /\ output_signal' = _istft(audio_stft, window_function, step_length)
    /\ pc' = "istft_done"
    /\ UNCHANGED <<audio_signal, window_function, step_length, padded_signal, audio_stft,
                   simVars, beatVars, origVars>>

NextStft == Stft \/ Istft

SpecStft == InitStft /\ [][NextStft]_vars

----------------------------------------------------------------------------
(* _localmaxima *)

Min(a, b) == IF a < b THEN a ELSE b

Max(a, b) == IF a > b THEN a ELSE b

(* all(x > v for v in s) *)
AllGreater(x, s) == \A j \in 1..Len(s) : x > s[j]

(* the two tests of the loop body for data_index (a Python index) *)
IsCandidate(vector, minimum_value, minimum_distance, data_index) ==
    LET x == vector[data_index + 1]
    IN  /\ x >= minimum_value
        /\ AllGreater(x, PySlice(vector, Max(data_index - minimum_distance, 0), data_index - 1))
        /\ AllGreater(x, PySlice(vector, data_index + 1,
                                 Min(data_index + minimum_distance, Len(vector))))

(* maximum_indices after the loop: the candidates in increasing index order *)
RECURSIVE CandidatesFrom(_, _, _, _)
CandidatesFrom(vector, minimum_value, minimum_distance, data_index) ==
    IF data_index >= Len(vector) THEN <<>>
    ELSE (IF IsCandidate(vector, minimum_value, minimum_distance, data_index)
          THEN <<data_index>> ELSE <<>>)
         \o CandidatesFrom(vector, minimum_value, minimum_distance, data_index + 1)

Candidates(vector, minimum_value, minimum_distance) ==
    CandidatesFrom(vector, minimum_value, minimum_distance, 0)

(* the results np.argsort may give: any order that sorts the values ascending
   (the default sort is not stable, so equal values may come in either order);
   positions are Python indices *)
ArgSorts(values) ==
    LET n == Len(values)
    IN  {p \in [1..n -> 0..(n - 1)] :
            /\ \A a, b \in 1..n : a # b => p[a] # p[b]
            /\ \A a, b \in 1..n : a < b => values[p[a] + 1] <= values[p[b] + 1]}

(* s[::-1] *)
Reversed(s) == [j \in 1..Len(s) |-> s[Len(s) + 1 - j]]

(* _localmaxima, given the order np.argsort returned.  With no candidate
   maximum_indices is still the Python list [], and indexing a list with an
   array raises TypeError. *)
_localmaxima(vector, minimum_value, minimum_distance, number_values, argsort) ==
    LET maximum_indices == Candidates(vector, minimum_value, minimum_distance)
        maximum_values == [j \in 1..Len(maximum_indices) |-> vector[maximum_indices[j] + 1]]
        sort_indices == Reversed(argsort)
        number == Min(number_values, Len(maximum_values))
        chosen == PySlice(sort_indices, 0, number)
    IN  IF maximum_indices = <<>>
        THEN [raised |-> "TypeError", maximum_values |-> <<>>, maximum_indices |-> <<>>]
        ELSE [raised |-> NoValue,
              maximum_values |-> PySlice(maximum_values, 0, number),
              maximum_indices |-> [j \in 1..Len(chosen) |-> maximum_indices[chosen[j] + 1]]]

(* the values of the candidates, which np.argsort is applied to *)
CandidateValues(vector, minimum_value, minimum_distance) ==
    LET c == Candidates(vector, minimum_value, minimum_distance)
    IN  [j \in 1..Len(c) |-> vector[c[j] + 1]]

----------------------------------------------------------------------------
(* _indices *)

Matrices ==
    UNION {[1..r -> [1..c -> 0..MaxSim]] : r \in 1..MaxRows, c \in 1..MaxColumns}

NumberColumns(matrix) == Len(matrix[1])

(* similarity_matrix[:, time_index] *)
Column(matrix, index) == [r \in 1..Len(matrix) |-> matrix[r][index + 1]]

InitIndices ==
    /\ pc = "indices_call"
    /\ similarity_matrix \in Matrices
    /\ similarity_threshold \in 0..MaxSim
    /\ similarity_distance \in 1..MaxDistance
    /\ similarity_number \in 0..MaxNumber
    /\ number_times = 0
    /\ time_index = 0
    /\ similarity_indices = <<>>
    /\ data_vector = <<>>
    /\ maximum = [raised |-> NoValue, maximum_values |-> <<>>, maximum_indices |-> <<>>]
    /\ raised = NoValue
    /\ audio_signal = <<>>
    /\ window_function = <<>>
    /\ step_length = 0
    /\ padded_signal = <<>>
    /\ audio_stft = <<>>
    /\ output_signal = NoValue
    /\ audio_spectrogram = <<>>
    /\ beat_spectrum = <<>>
    /\ lag_range = <<0, 0>>
    /\ period_range = <<0, 0>>
    /\ repeating_period = 0
    /\ IdleOriginal

(* number_times = similarity_matrix.shape[0]; similarity_indices = [None]*number_times *)
IndicesEnter ==
    /\ pc = "indices_call"
    /\ number_times' = Len(similarity_matrix)
    /\ similarity_indices' = [j \in 1..Len(similarity_matrix) |-> NoValue]
    /\ time_index' = 0
    /\ pc' = "indices_loop"
    /\ UNCHANGED <<similarity_matrix, similarity_threshold, similarity_distance,
                   similarity_number, data_vector, maximum, raised, stftVars, beatVars,
                   origVars>>

(* one iteration of the loop: the column is read and _localmaxima returns *)
IndicesColumn ==
    /\ pc = "indices_loop"
    /\ time_index < number_times
    /\ time_index < NumberColumns(similarity_matrix)
    /\ LET column == Column(similarity_matrix, time_index)
       IN  \E argsort \in ArgSorts(CandidateValues(column, similarity_threshold,
                                                   similarity_distance)) :
             LET result == _localmaxima(column, similarity_threshold, similarity_distance,
                                        similarity_number, argsort)
             IN  /\ result.raised = NoValue
                 /\ data_vector' = column
                 /\ maximum' = result
                 /\ similarity_indices' =
                        [similarity_indices EXCEPT ![time_index + 1] = result.maximum_indices]
                 /\ time_index' = time_index + 1
    /\ UNCHANGED <<pc, similarity_matrix, similarity_threshold, similarity_distance,
                   similarity_number, number_times, raised, stftVars, beatVars,
                   origVars>>

(* one iteration of the loop: _localmaxima raises, which ends _indices *)
IndicesColumnRaises ==
    /\ pc = "indices_loop"
    /\ time_index < number_times
    /\ time_index < NumberColumns(similarity_matrix)
    /\ LET column == Column(similarity_matrix, time_index)
       IN  \E argsort \in ArgSorts(CandidateValues(column, similarity_threshold,
                                                   similarity_distance)) :
             LET result == _localmaxima(column, similarity_threshold, similarity_distance,
                                        similarity_number, argsort)
             IN  /\ result.raised # NoValue
                 /\ data_vector' = column
                 /\ maximum' = result
                 /\ raised' = result.raised
    /\ pc' = "indices_raised"
    /\ UNCHANGED <<similarity_matrix, similarity_threshold, similarity_distance,
                   similarity_number, number_times, time_index, similarity_indices,
                   stftVars, beatVars, origVars>>

(* similarity_matrix[:, time_index] with time_index past the last column *)
IndicesColumnMissing ==
    /\ pc = "indices_loop"
    /\ time_index < number_times
    /\ time_index >= NumberColumns(similarity_matrix)
    /\ raised' = "IndexError"
    /\ pc' = "indices_raised"
    /\ UNCHANGED <<similarity_matrix, similarity_threshold, similarity_distance,
                   similarity_number, number_times, time_index, similarity_indices,
                   data_vector, maximum, stftVars, beatVars, origVars>>

IndicesReturn ==
    /\ pc = "indices_loop"
    /\ time_index >= number_times
    /\ pc' = "indices_returned"
    /\ UNCHANGED <<simVars, stftVars, beatVars, origVars>>

NextIndices ==
    \/ IndicesEnter
    \/ IndicesColumn
    \/ IndicesColumnRaises
    \/ IndicesColumnMissing
    \/ IndicesReturn

SpecIndices == InitIndices /\ [][NextIndices]_vars

----------------------------------------------------------------------------
(* _acorr and _beatspectrum *)

(* np.real(np.fft.ifft(np.power(np.abs(np.fft.fft(x, n=2*N)), 2)))[lag]: by the
   Wiener-Khinchin theorem the circular autocorrelation of x zero-padded to 2*N *)
acorr_circular(series, lag) ==
    LET N == Len(series)
        padded == series \o Zeros(N)
    IN  SumSeq([t \in 1..(2 * N) |-> padded[t] * padded[((t - 1 + lag) % (2 * N)) + 1]])

(* _acorr of one column: lags 0..N-1 are kept and lag l is divided by N - l *)
_acorr(series) ==
    LET N == Len(series)
    IN  [l \in 1..N |-> [num |-> acorr_circular(series, l - 1), den |-> N - (l - 1)]]

(* _beatspectrum: the mean over the frequency channels of their autocorrelations *)
_beatspectrum(spectrogram) ==
    LET F == Len(spectrogram)
        T == Len(spectrogram[1])
    IN  [l \in 1..T |->
            [num |-> SumSeq([f \in 1..F |-> _acorr(spectrogram[f])[l].num]),
             den |-> (T - (l - 1)) * F]]

----------------------------------------------------------------------------
(* _periods *)

(* a < b for fractions with positive denominators *)
Less(a, b) == a.num * b.den < b.num * a.den

(* np.argmax(s): the Python index of the first maximum of a non-empty s *)
argmax(s) ==
    (CHOOSE j \in 1..Len(s) :
        /\ \A m \in 1..Len(s) : ~Less(s[j], s[m])
        /\ \A m \in 1..(j - 1) : Less(s[m], s[j])) - 1

(* the slice _periods takes the maximum over *)
periods_slice(spectrum, range) ==
    PySlice(spectrum, range[1] + 1, Min(range[2], Len(spectrum) \div 3))

(* _periods for a beat spectrum (ndim == 1); np.argmax of an empty slice raises ValueError *)
_periods(spectrum, range) ==
    IF periods_slice(spectrum, range) = <<>>
    THEN [raised |-> "ValueError", repeating_periods |-> 0]
    ELSE [raised |-> NoValue,
          repeating_periods |-> argmax(periods_slice(spectrum, range)) + range[1] + 1]

(* period_range2[0] = period_range2[0]-1, as original adjusts the range in time
   frames before it calls _periods *)
original_period_range(range) == <<range[1] - 1, range[2]>>

----------------------------------------------------------------------------
(* The period of a spectrogram (as original finds it) and of a beat spectrum
   (a direct call of _periods) *)

(* the spectrogram of T frames that repeats a pattern, one row per frequency *)
Repeat(pattern, T) ==
    [f \in 1..Len(pattern) |-> [t \in 1..T |-> pattern[f][((t - 1) % Len(pattern[f])) + 1]]]

Patterns ==
    UNION {[1..F -> [1..P -> 0..MaxMagnitude]] :
              F \in 1..MaxFrequencies, P \in 1..MaxPattern}

PeriodicSpectrograms == {Repeat(pattern, T) : pattern \in Patterns, T \in 1..MaxFrames}

BeatSpectra ==
    UNION {[1..n -> {[num |-> v, den |-> 1] : v \in 0..MaxBeat}] : n \in 0..MaxLags}

LagRanges == {r \in (0..MaxRange) \X (1..MaxRange) : r[1] <= r[2]}

InitPeriods ==
    /\ \/ /\ pc = "beatspectrum_call"
          /\ audio_spectrogram \in PeriodicSpectrograms
          /\ beat_spectrum = <<>>
          /\ lag_range \in {r \in LagRanges : r[1] >= 1}
          /\ period_range = <<0, 0>>
       \/ /\ pc = "periods_call"
          /\ audio_spectrogram = <<>>
          /\ beat_spectrum \in BeatSpectra
          /\ lag_range \in LagRanges
          /\ period_range = lag_range
    /\ repeating_period = 0
    /\ IdleOriginal
    /\ raised = NoValue
    /\ audio_signal = <<>>
    /\ window_function = <<>>
    /\ step_length = 0
    /\ padded_signal = <<>>
    /\ audio_stft = <<>>
    /\ output_signal = NoValue
    /\ similarity_matrix = <<>>
    /\ similarity_threshold = 0
    /\ similarity_distance = 0
    /\ similarity_number = 0
    /\ number_times = 0
    /\ time_index = 0
    /\ similarity_indices = <<>>
    /\ data_vector = <<>>
    /\ maximum = [raised |-> NoValue, maximum_values |-> <<>>, maximum_indices |-> <<>>]

(* beat_spectrum = _beatspectrum(...) *)
Beatspectrum ==
    /\ pc = "beatspectrum_call"
    /\ beat_spectrum' = _beatspectrum(audio_spectrogram)
    /\ pc' = "period_range"
    /\ UNCHANGED <<audio_spectrogram, lag_range, period_range, repeating_period, raised,
                   similarity_matrix, similarity_threshold, similarity_distance,
                   similarity_number, number_times, time_index, similarity_indices,
                   data_vector, maximum, stftVars, origVars>>

(* period_range2[0] = period_range2[0]-1 *)
OriginalPeriodRange ==
    /\ pc = "period_range"
    /\ period_range' = original_period_range(lag_range)
    /\ pc' = "periods_call"
    /\ UNCHANGED <<audio_spectrogram, beat_spectrum, lag_range, repeating_period, raised,
                   similarity_matrix, similarity_threshold, similarity_distance,
                   similarity_number, number_times, time_index, similarity_indices,
                   data_vector, maximum, stftVars, origVars>>

(* _periods returns *)
Periods ==
    /\ pc = "periods_call"
    /\ _periods(beat_spectrum, period_range).raised = NoValue
    /\ repeating_period' = _periods(beat_spectrum, period_range).repeating_periods
    /\ pc' = "periods_returned"
    /\ UNCHANGED <<audio_spectrogram, beat_spectrum, lag_range, period_range, raised,
                   similarity_matrix, similarity_threshold, similarity_distance,
                   similarity_number, number_times, time_index, similarity_indices,
                   data_vector, maximum, stftVars, origVars>>

(* _periods raises *)
PeriodsRaises ==
    /\ pc = "periods_call"
    /\ _periods(beat_spectrum, period_range).raised # NoValue
    /\ raised' = _periods(beat_spectrum, period_range).raised
    /\ pc' = "periods_raised"
    /\ UNCHANGED <<audio_spectrogram, beat_spectrum, lag_range, period_range,
                   repeating_period,
                   similarity_matrix, similarity_threshold, similarity_distance,
                   similarity_number, number_times, time_index, similarity_indices,
                   data_vector, maximum, stftVars, origVars>>

NextPeriods == Beatspectrum \/ OriginalPeriodRange \/ Periods \/ PeriodsRaises

SpecPeriods == InitPeriods /\ [][NextPeriods]_vars

----------------------------------------------------------------------------
(* The public functions *)

(* the sample rates of the model: window lengths 2 and 4 *)
SampleRates == {26, 51}

PublicFunctions == {"original", "extended", "adaptive", "sim", "simonline"}

(* period_range = np.array([1, 10]) *)
period_range_seconds == <<1, 10>>

(* the smallest power of two p >= power with 0.04 * rate <= p *)
RECURSIVE PowerOfTwoFrom(_, _)
PowerOfTwoFrom(power, rate) ==
    IF 25 * power >= rate THEN power ELSE PowerOfTwoFrom(2 * power, rate)

(* windowlength = lambda sample_rate: 2**int(np.ceil(np.log2(0.04*sample_rate))),
   for a sample rate above 25 Hz *)
windowlength(rate) == PowerOfTwoFrom(2, rate)

(* round(n / d), halves to the even neighbour *)
Round(n, d) ==
    LET q == n \div d
        r == n % d
    IN  IF 2 * r < d THEN q
        ELSE IF 2 * r > d THEN q + 1
        ELSE IF q % 2 = 0 THEN q ELSE q + 1

(* round(period_range*sample_rate/step_length) *)
original_lag_range(rate, step) ==
    <<Round(period_range_seconds[1] * rate, step), Round(period_range_seconds[2] * rate, step)>>

stftRest == <<audio_signal, window_function, padded_signal, audio_stft, output_signal>>

simRest == <<similarity_matrix, similarity_threshold, similarity_distance,
             similarity_number, time_index, similarity_indices, data_vector, maximum>>

beatRest == <<audio_spectrogram, beat_spectrum>>

InitPublic ==
    /\ pc = "call"
    /\ entry \in PublicFunctions
    /\ number_samples \in 0..MaxSignal
    /\ number_channels \in 1..MaxChannels
    /\ sample_rate \in SampleRates
    /\ window_length = 0
    /\ channel_index = 0
    /\ analysed = {}
    /\ return_value = [value |-> NoValue, shape |-> <<0, 0>>]
    /\ raised = NoValue
    /\ step_length = 0
    /\ number_times = 0
    /\ lag_range = <<0, 0>>
    /\ period_range = <<0, 0>>
    /\ repeating_period = 0
    /\ audio_signal = <<>>
    /\ window_function = <<>>
    /\ padded_signal = <<>>
    /\ audio_stft = <<>>
    /\ output_signal = NoValue
    /\ similarity_matrix = <<>>
    /\ similarity_threshold = 0
    /\ similarity_distance = 0
    /\ similarity_number = 0
    /\ time_index = 0
    /\ similarity_indices = <<>>
    /\ data_vector = <<>>
    /\ maximum = [raised |-> NoValue, maximum_values |-> <<>>, maximum_indices |-> <<>>]
    /\ audio_spectrogram = <<>>
    /\ beat_spectrum = <<>>

(* original: the shape, the window and step lengths and the number of time frames *)
OriginalEnter ==
    /\ pc = "call"
    /\ entry = "original"
    /\ window_length' = windowlength(sample_rate)
    /\ step_length' = steplength(windowlength(sample_rate))
    /\ number_times' = original_number_times(windowlength(sample_rate),
                                             steplength(windowlength(sample_rate)),
                                             number_samples)
    /\ channel_index' = 0
    /\ pc' = "original_stft"
    /\ UNCHANGED <<entry, number_samples, number_channels, sample_rate, analysed,
                   return_value, raised, lag_range, period_range, repeating_period,
                   stftRest, simRest, beatRest>>

(* original: one iteration of the loop over the channels; the STFT of the channel
   has the shape of audio_stft[:, :, channel_index] *)
OriginalStft ==
    /\ pc = "original_stft"
    /\ channel_index < number_channels
    /\ stft_number_times(number_samples, window_length, step_length) = number_times
    /\ analysed' = analysed \cup {"stft"}
    /\ channel_index' = channel_index + 1
    /\ UNCHANGED <<pc, entry, number_samples, number_channels, sample_rate, window_length,
                   return_value, raised, step_length, number_times, lag_range,
                   period_range, repeating_period, stftRest, simRest, beatRest>>

(* original: the magnitude spectrogram and its beat spectrum, of number_times lags *)
OriginalBeatspectrum ==
    /\ pc = "original_stft"
    /\ channel_index >= number_channels
    /\ analysed' = analysed \cup {"beatspectrum"}
    /\ pc' = "original_periods"
    /\ UNCHANGED <<entry, number_samples, number_channels, sample_rate, window_length,
                   channel_index, return_value, raised, step_length, number_times,
                   lag_range, period_range, repeating_period, stftRest, simRest, beatRest>>

(* original: the period range in time frames, and _periods returns; which lag of
   its slice holds the maximum depends on the samples *)
OriginalPeriods ==
    /\ pc = "original_periods"
    /\ lag_range' = original_lag_range(sample_rate, step_length)
    /\ period_range' = original_period_range(original_lag_range(sample_rate, step_length))
    /\ \E lag \in 1..Len(periods_slice(Zeros(number_times), period_range')) :
         repeating_period' = (lag - 1) + period_range'[1] + 1
    /\ pc' = "original_return"
    /\ UNCHANGED <<entry, number_samples, number_channels, sample_rate, window_length,
                   channel_index, analysed, return_value, raised, step_length,
                   number_times, stftRest, simRest, beatRest>>

(* original: the period range in time frames, and _periods raises on its empty slice *)
OriginalPeriodsRaises ==
    /\ pc = "original_periods"
    /\ lag_range' = original_lag_range(sample_rate, step_length)
    /\ period_range' = original_period_range(original_lag_range(sample_rate, step_length))
    /\ periods_slice(Zeros(number_times), period_range') = <<>>
    /\ raised' = "ValueError"
    /\ pc' = "raised"
    /\ UNCHANGED <<entry, number_samples, number_channels, sample_rate, window_length,
                   channel_index, analysed, return_value, step_length, number_times,
                   repeating_period, stftRest, simRest, beatRest>>

(* original: background_signal = np.zeros((number_samples, number_channels)) is returned *)
OriginalReturn ==
    /\ pc = "original_return"
    /\ return_value' = [value |-> "ndarray", shape |-> <<number_samples, number_channels>>]
    /\ pc' = "returned"
    /\ UNCHANGED <<entry, number_samples, number_channels, sample_rate, window_length,
                   channel_index, analysed, raised, step_length, number_times, lag_range,
                   period_range, repeating_period, stftRest, simRest, beatRest>>

(* a function whose body is its docstring returns None *)
ReturnNone ==
    /\ return_value' = [value |-> NoValue, shape |-> <<0, 0>>]
    /\ pc' = "returned"
    /\ UNCHANGED <<entry, number_samples, number_channels, sample_rate, window_length,
                   channel_index, analysed, raised, step_length, number_times, lag_range,
                   period_range, repeating_period, stftRest, simRest, beatRest>>

Extended == pc = "call" /\ entry = "extended" /\ ReturnNone

Adaptive == pc = "call" /\ entry = "adaptive" /\ ReturnNone

Sim == pc = "call" /\ entry = "sim" /\ ReturnNone

Simonline == pc = "call" /\ entry = "simonline" /\ ReturnNone

NextPublic ==
    \/ OriginalEnter
    \/ OriginalStft
    \/ OriginalBeatspectrum
    \/ OriginalPeriods
    \/ OriginalPeriodsRaises
    \/ OriginalReturn
    \/ Extended
    \/ Adaptive
    \/ Sim
    \/ Simonline

SpecPublic == InitPublic /\ [][NextPublic]_vars

----------------------------------------------------------------------------
(* Properties of _localmaxima and _indices *)

(* _localmaxima has been called, with data_vector, and maximum is its outcome *)
LocalMaximaCalled == time_index > 0 \/ raised = "TypeError"

Abs(x) == IF x < 0 THEN -x ELSE x

SeqToSet(s) == {s[j] : j \in 1..Len(s)}

(* C2: any two distinct indices _localmaxima returned, in any entry of the list
   _indices fills, are at least minimum_distance apart *)
C2_MinimumSeparation ==
    \A c \in 1..time_index :
        \A a, b \in 1..Len(similarity_indices[c]) :
            a # b => Abs(similarity_indices[c][a] - similarity_indices[c][b])
                        >= similarity_distance

(* C3: with k the number of points that pass the tests, _localmaxima returns
   min(number_values, k) indices, returns (empty) rather than raising when k = 0,
   every returned value is >= minimum_value, and the returned indices are the
   highest-valued candidates in order of non-increasing value *)
C3_CountThresholdOrder ==
    LocalMaximaCalled =>
        LET candidates == SeqToSet(Candidates(data_vector, similarity_threshold,
                                              similarity_distance))
            returned == maximum.maximum_indices
        IN  /\ maximum.raised = NoValue
            /\ Len(returned) = Min(similarity_number, Cardinality(candidates))
            /\ SeqToSet(returned) \subseteq candidates
            /\ \A j \in 1..Len(returned) :
                   data_vector[returned[j] + 1] >= similarity_threshold
            /\ \A a, b \in 1..Len(returned) :
                   a < b => data_vector[returned[a] + 1] >= data_vector[returned[b] + 1]
            /\ \A j \in 1..Len(returned) : \A i \in candidates \ SeqToSet(returned) :
                   data_vector[i + 1] <= data_vector[returned[j] + 1]

(* index i is a local maximum as C9 defines it: at least minimum_value and
   strictly greater than every other point within minimum_distance *)
StrictLocalMaximum(vector, minimum_value, minimum_distance, i) ==
    /\ vector[i + 1] >= minimum_value
    /\ \A j \in 0..(Len(vector) - 1) :
           (1 <= Abs(i - j) /\ Abs(i - j) <= minimum_distance)
               => vector[i + 1] > vector[j + 1]

(* C9: in a call that returns, _localmaxima accepts exactly the strict local
   maxima, index 0 and the last index included, and returns exactly that set when
   number_values allows *)
C9_AcceptedPoints ==
    (time_index > 0 /\ maximum.raised = NoValue) =>
        LET accepted == {i \in 0..(Len(data_vector) - 1) :
                            StrictLocalMaximum(data_vector, similarity_threshold,
                                               similarity_distance, i)}
        IN  /\ SeqToSet(Candidates(data_vector, similarity_threshold,
                                   similarity_distance)) = accepted
            /\ similarity_number >= Cardinality(accepted)
                   => SeqToSet(similarity_indices[time_index]) = accepted

(* C10: for a matrix of R rows and C columns _indices never reads a column
   index >= C and returns a list of exactly C entries, entry c being the
   local maxima of column c *)
C10_OneEntryPerColumn ==
    /\ raised # "IndexError"
    /\ pc = "indices_returned" =>
        /\ Len(similarity_indices) = NumberColumns(similarity_matrix)
        /\ \A c \in 1..Len(similarity_indices) :
               \E argsort \in ArgSorts(CandidateValues(Column(similarity_matrix, c - 1),
                                           similarity_threshold, similarity_distance)) :
                   similarity_indices[c] =
                       _localmaxima(Column(similarity_matrix, c - 1), similarity_threshold,
                                    similarity_distance, similarity_number,
                                    argsort).maximum_indices

----------------------------------------------------------------------------
(* Properties of _beatspectrum and _periods *)

PeriodsEnded == pc \in {"periods_returned", "periods_raised"}

(* the lags C4 allows: lag >= 1, inside the caller's range with both endpoints,
   and at most a third of the length of the beat spectrum *)
AllowedLags ==
    {q \in 1..Len(beat_spectrum) :
        lag_range[1] <= q /\ q <= lag_range[2] /\ q <= Len(beat_spectrum) \div 3}

(* C4: _periods returns the lowest lag that maximises the beat spectrum over the
   allowed lags, both endpoints of the caller's range being eligible *)
C4_PeriodSelection ==
    (PeriodsEnded /\ AllowedLags # {})
    => /\ pc = "periods_returned"
       /\ repeating_period \in AllowedLags
       /\ \A q \in AllowedLags :
              ~Less(beat_spectrum[repeating_period + 1], beat_spectrum[q + 1])
       /\ \A q \in AllowedLags :
              q < repeating_period
                  => Less(beat_spectrum[q + 1], beat_spectrum[repeating_period + 1])

(* V[f, t + q] = V[f, t] for all valid t *)
HasPeriod(spectrogram, q) ==
    \A f \in 1..Len(spectrogram) : \A t \in 1..(Len(spectrogram[f]) - q) :
        spectrogram[f][t + q] = spectrogram[f][t]

SmallestPeriod(spectrogram) ==
    CHOOSE q \in 1..Len(spectrogram[1]) :
        /\ HasPeriod(spectrogram, q)
        /\ \A r \in 1..(q - 1) : ~HasPeriod(spectrogram, r)

(* C5: for a spectrogram of T frames with smallest period P, and a range with
   min <= P <= max and P <= floor(T/3), the period found is exactly P *)
C5_PeriodOfPeriodicInput ==
    (PeriodsEnded /\ audio_spectrogram # <<>>)
    => LET P == SmallestPeriod(audio_spectrogram)
           T == Len(audio_spectrogram[1])
       IN  (lag_range[1] <= P /\ P <= lag_range[2] /\ P <= T \div 3)
           => (pc = "periods_returned" /\ repeating_period = P)

----------------------------------------------------------------------------
(* Properties of the public functions *)

(* C6: each of original, extended, adaptive, sim and simonline returns a
   background of the shape [number_samples, number_channels] of its input, and
   none returns no value *)
C6_BackgroundShape ==
    pc = "returned"
    => /\ return_value.value = "ndarray"
       /\ return_value.shape = <<number_samples, number_channels>>

(* the input C7 is about: an empty signal, or a period range in time frames
   with no lag at or below a third of the number of time frames *)
BadInput ==
    LET length == windowlength(sample_rate)
        step == steplength(length)
        frames == original_number_times(length, step, number_samples)
        range == original_lag_range(sample_rate, step)
    IN  \/ number_samples = 0
        \/ ~ \E q \in range[1]..range[2] : q <= frames \div 3

(* C7: for such input original never returns, and its error is raised before any
   analysis step (STFT, beat spectrum) has run *)
C7_FailFast ==
    (entry = "original" /\ BadInput)
    => /\ pc # "returned"
       /\ analysed = {}

----------------------------------------------------------------------------
(* Properties of the transform pair *)

(* w[n] + w[n + L/2] is the same for every n, and not zero *)
ConstantOverlapAdd(window, step) ==
    /\ \A n \in 1..step : window[n] + window[n + step] = window[1] + window[1 + step]
    /\ window[1] + window[1 + step] # 0

(* the k-th output sample equals v exactly *)
OutputIs(k, v) == output_signal.den # 0 /\ output_signal.num[k] = v * output_signal.den

(* C1 as stated: for every signal of N >= 1 samples and every constant-overlap-add
   window, _istft(_stft(x)) has exactly N samples and its k-th sample is x[k] *)
C1_RoundTripExactLength ==
    (pc = "istft_done" /\ Len(audio_signal) >= 1
        /\ ConstantOverlapAdd(window_function, step_length))
    => /\ Len(output_signal.num) = Len(audio_signal)
       /\ \A k \in 1..Len(audio_signal) : OutputIs(k, audio_signal[k])

(* C1 amended: for every signal of N >= 1 samples and every window with a nonzero
   constant overlap-add sum, _istft(_stft(x)) has ceil(N/step_length)*step_length
   samples, the first N of them equal to x and the others zero *)
C1_RoundTripPaddedLength ==
    (pc = "istft_done" /\ Len(audio_signal) >= 1
        /\ ConstantOverlapAdd(window_function, step_length))
    => LET N == Len(audio_signal)
           M == Len(output_signal.num)
       IN  /\ M % step_length = 0
           /\ N <= M
           /\ M < N + step_length
           /\ \A k \in 1..N : OutputIs(k, audio_signal[k])
           /\ \A k \in (N + 1)..M : OutputIs(k, 0)

(* C1 witness: a 3-sample signal through a non-rectangular constant-overlap-add
   window of length 4 comes back 4 samples long *)
C1_Witness ==
    /\ pc = "istft_done"
    /\ Len(audio_signal) = 3
    /\ audio_signal[3] # 0
    /\ Len(window_function) = 4
    /\ ConstantOverlapAdd(window_function, step_length)
    /\ window_function[1] # window_function[2]
    /\ Len(output_signal.num) = 4

(* C8: _stft returns ceil((L - step + N)/step) frames, the count original
   preallocates; the padded signal starts with L - step zeros followed by the
   signal and is (frames - 1)*step + L long; every frame's slice lies inside it and
   is L long; every input sample falls in at least one frame *)
C8_FramesAndPadding ==
    (pc \in {"stft_done", "istft_done"})
    => LET N == Len(audio_signal)
           L == Len(window_function)
           T == Len(audio_stft)
           front == L - step_length
       IN  /\ T * step_length >= front + N
           /\ (T - 1) * step_length < front + N
           /\ T = original_number_times(L, step_length, N)
           /\ Len(padded_signal) = (T - 1) * step_length + L
           /\ \A j \in 1..front : padded_signal[j] = 0
           /\ \A k \in 1..N : padded_signal[front + k] = audio_signal[k]
           /\ \A t \in 0..(T - 1) :
                /\ step_length * t + L <= Len(padded_signal)
                /\ Len(stft_segment(padded_signal, L, step_length, t)) = L
                /\ Len(audio_stft[t + 1]) = L
           /\ \A k \in 1..N : \E t \in 0..(T - 1) :
                /\ step_length * t <= front + k - 1
                /\ front + k - 1 < step_length * t + L

(* C8 witness: a 3-sample signal and a window of length 4 give three frames *)
C8_Witness ==
    /\ pc = "stft_done"
    /\ Len(audio_signal) = 3
    /\ audio_signal[3] # 0
    /\ Len(window_function) = 4
    /\ Len(audio_stft) = 3

====
